---------------------------- MODULE Spec2Model ----------------------------
(***************************************************************************)
(* Model of readthedocs/builds/models.py: the Build record and its state   *)
(* field, Version.save, Version.get_vcs_slug / remote_slug, the GitHub     *)
(* and Bitbucket source-link builders, and a build's command results.      *)
(*                                                                         *)
(* Python strings are sequences of one-character strings, so that          *)
(* str.replace, the `in` operator, str.rstrip, indexing and the regular    *)
(* expressions are computed character by character.                        *)
(***************************************************************************)
EXTENDS Integers, Sequences, FiniteSets, TLC

VARIABLES builds, version, project, vcs_repo, commands, ret

vars ==
    <<builds, version, project, vcs_repo, commands, ret>>

---------------------------------------------------------------------------
(* Bounds of the model.                                                    *)

\* number of Build rows created in one behaviour
MaxBuilds ==
    2

\* number of BuildCommandResult rows created in one behaviour
MaxCommands ==
    2

---------------------------------------------------------------------------
(* String literals.                                                        *)

\* the empty string '' (also stands for an unset, falsy CharField)
EMPTY ==
    <<>>

\* "latest"
LATEST ==
    <<"l","a","t","e","s","t">>

\* "stable"
STABLE ==
    <<"s","t","a","b","l","e">>

\* "main"
s_main ==
    <<"m","a","i","n">>

\* "master"
s_master ==
    <<"m","a","s","t","e","r">>

\* "rel-1"
s_rel_1 ==
    <<"r","e","l","-","1">>

\* "rel/1"
s_rel_sl_1 ==
    <<"r","e","l","/","1">>

\* "feature-x"
s_feature_x ==
    <<"f","e","a","t","u","r","e","-","x">>

\* "feature/x"
s_feature_sl_x ==
    <<"f","e","a","t","u","r","e","/","x">>

\* "feature-cool-thing"
s_feature_cool_thing ==
    <<"f","e","a","t","u","r","e","-","c","o","o","l","-","t","h","i","n","g">>

\* "feature/cool-thing"
s_feature_sl_cool_thing ==
    <<"f","e","a","t","u","r","e","/","c","o","o","l","-","t","h","i","n","g">>

\* "a1b2c3", a revision identifier
s_sha ==
    <<"a","1","b","2","c","3">>

\* "source"
s_source ==
    <<"s","o","u","r","c","e">>

\* "/source"
s_sl_source ==
    <<"/","s","o","u","r","c","e">>

\* "source/"
s_source_sl ==
    <<"s","o","u","r","c","e","/">>

\* "/source/"
s_sl_source_sl ==
    <<"/","s","o","u","r","c","e","/">>

\* "index"
s_index ==
    <<"i","n","d","e","x">>

\* ".rst"
s_rst ==
    <<".","r","s","t">>

\* "view"
s_view ==
    <<"v","i","e","w">>

\* "edit"
s_edit ==
    <<"e","d","i","t">>

\* "blame", an action the builders do not know
s_blame ==
    <<"b","l","a","m","e">>

\* "blob"
s_blob ==
    <<"b","l","o","b">>

\* "github"
s_github ==
    <<"g","i","t","h","u","b">>

\* "bitbucket"
s_bitbucket ==
    <<"b","i","t","b","u","c","k","e","t">>

\* "https://github.com/acme/docs.git"
r_github_https_git ==
    <<"h","t","t","p","s",":","/","/","g","i","t","h","u","b",".","c","o","m","/","a","c","m","e","/","d","o","c","s",".","g","i","t">>

\* "https://github.com/acme/docs"
r_github_https ==
    <<"h","t","t","p","s",":","/","/","g","i","t","h","u","b",".","c","o","m","/","a","c","m","e","/","d","o","c","s">>

\* "git@github.com:acme/docs.git"
r_github_ssh ==
    <<"g","i","t","@","g","i","t","h","u","b",".","c","o","m",":","a","c","m","e","/","d","o","c","s",".","g","i","t">>

\* "https://acme.github.io", holds the token but matches no pattern
r_github_pages ==
    <<"h","t","t","p","s",":","/","/","a","c","m","e",".","g","i","t","h","u","b",".","i","o">>

\* "https://bitbucket.org/acme/docs"
r_bitbucket_https ==
    <<"h","t","t","p","s",":","/","/","b","i","t","b","u","c","k","e","t",".","o","r","g","/","a","c","m","e","/","d","o","c","s">>

\* "https://bitbucket.org/acme/docs.git"
r_bitbucket_git ==
    <<"h","t","t","p","s",":","/","/","b","i","t","b","u","c","k","e","t",".","o","r","g","/","a","c","m","e","/","d","o","c","s",".","g","i","t">>

\* "https://bitbucket.org/acme/docs/"
r_bitbucket_slash ==
    <<"h","t","t","p","s",":","/","/","b","i","t","b","u","c","k","e","t",".","o","r","g","/","a","c","m","e","/","d","o","c","s","/">>

\* "https://gitlab.com/acme/docs.git"
r_gitlab ==
    <<"h","t","t","p","s",":","/","/","g","i","t","l","a","b",".","c","o","m","/","a","c","m","e","/","d","o","c","s",".","g","i","t">>

\* "https://github.com/acme/docs/blob/main/source/index.rst"
u_github_acme_docs_main_index ==
    <<"h","t","t","p","s",":","/","/","g","i","t","h","u","b",".","c","o","m","/","a","c","m","e","/","d","o","c","s","/","b","l","o","b","/","m","a","i","n","/","s","o","u","r","c","e","/","i","n","d","e","x",".","r","s","t">>

---------------------------------------------------------------------------
(* Python string operations used by the models.                            *)

\* s.replace(old, new) for one-character old and new
str_replace(s, old, new) ==
    [i \in 1..Len(s) |-> IF s[i] = old THEN new ELSE s[i]]

\* needle in hay
str_in(needle, hay) ==
    \E i \in 0..(Len(hay) - Len(needle)) :
        SubSeq(hay, i + 1, i + Len(needle)) = needle

RECURSIVE str_rstrip(_, _)
\* s.rstrip(c) for a one-character c
str_rstrip(s, c) ==
    IF Len(s) > 0 /\ s[Len(s)] = c
    THEN str_rstrip(SubSeq(s, 1, Len(s) - 1), c)
    ELSE s

\* the result record of a call: the value it returns or the exception it raises
Returns(v) ==
    [exc |-> "none", val |-> v]

Raises(e) ==
    [exc |-> e, val |-> EMPTY]

\* no call has been made since the objects last changed
NoCall ==
    [op |-> "none"]

---------------------------------------------------------------------------
(* Build: the state field and the finished property.                       *)

\* BUILD_STATE, in lifecycle order
BUILD_STATE ==
    <<"triggered", "cloning", "installing", "building", "uploading", "finished">>

BUILD_STATE_FINISHED ==
    "finished"

BuildStates ==
    {BUILD_STATE[i] : i \in 1..Len(BUILD_STATE)}

\* position of a state in the lifecycle order
StateIndex(s) ==
    CHOOSE i \in 1..Len(BUILD_STATE) : BUILD_STATE[i] = s

\* a default that would start every build at the head of the lifecycle
Build_state_default_triggered ==
    "triggered"

\* Build.state: models.CharField(..., default='finished')
Build_state_default ==
    "finished"

\* Build.finished
Build_finished(b) ==
    b.state = BUILD_STATE_FINISHED

\* an assignment that keeps the stored state on a move to an earlier,
\* non-finished state
Build_set_state_forward_only(b, s) ==
    IF s # BUILD_STATE_FINISHED /\ StateIndex(s) < StateIndex(b.state)
    THEN b
    ELSE [b EXCEPT !.state = s]

\* build.state = s: a plain field assignment, nothing validates it
Build_set_state(b, s) ==
    [b EXCEPT !.state = s]

\* Build(...) without a state keyword, then save()
BuildCreateDefault ==
    /\ Len(builds) < MaxBuilds
    /\ builds' = Append(builds, [state |-> Build_state_default])
    /\ ret' = [op |-> "Build.create", pk |-> Len(builds) + 1, explicit |-> FALSE]
    /\ UNCHANGED <<version, project, vcs_repo, commands>>

\* Build(state=s), then save()
BuildCreate(s) ==
    /\ Len(builds) < MaxBuilds
    /\ builds' = Append(builds, [state |-> s])
    /\ ret' = [op |-> "Build.create", pk |-> Len(builds) + 1, explicit |-> TRUE]
    /\ UNCHANGED <<version, project, vcs_repo, commands>>

\* build.state = s; build.save()
BuildUpdateState(pk, s) ==
    /\ pk \in 1..Len(builds)
    /\ builds' = [builds EXCEPT ![pk] = Build_set_state(builds[pk], s)]
    /\ ret' = [op |-> "Build.update", pk |-> pk, old |-> builds[pk].state,
               new |-> s, res |-> Returns(EMPTY)]
    /\ UNCHANGED <<version, project, vcs_repo, commands>>

\* build.finished
BuildReadFinished(pk) ==
    /\ pk \in 1..Len(builds)
    /\ ret' = [op |-> "Build.finished", pk |-> pk,
               res |-> Returns(Build_finished(builds[pk]))]
    /\ UNCHANGED <<builds, version, project, vcs_repo, commands>>

---------------------------------------------------------------------------
(* Version.get_vcs_slug and Version.remote_slug.                           *)

\* the step that never rewrites the slug
unslugify_never(slug, identifier) ==
    slug

\* if slug.replace('-', '/') in self.identifier: slug = slug.replace('-', '/')
unslugify(slug, identifier) ==
    IF str_in(str_replace(slug, "-", "/"), identifier)
    THEN str_replace(slug, "-", "/")
    ELSE slug

\* get_vcs_slug without the early return for "stable"
get_vcs_slug_stable_falls_through(v, p, r) ==
    IF v.slug = LATEST
    THEN IF p.default_branch # EMPTY
         THEN unslugify(p.default_branch, v.identifier)
         ELSE unslugify(r.fallback_branch, v.identifier)
    ELSE unslugify(v.slug, v.identifier)

\* get_vcs_slug with the default_branch test inverted
get_vcs_slug_default_branch_inverted(v, p, r) ==
    IF v.slug = LATEST
    THEN IF p.default_branch = EMPTY
         THEN unslugify(p.default_branch, v.identifier)
         ELSE unslugify(r.fallback_branch, v.identifier)
    ELSE IF v.slug = STABLE
    THEN v.identifier
    ELSE unslugify(v.slug, v.identifier)

\* Version.get_vcs_slug
get_vcs_slug(v, p, r) ==
    IF v.slug = LATEST
    THEN IF p.default_branch # EMPTY
         THEN unslugify(p.default_branch, v.identifier)
         ELSE unslugify(r.fallback_branch, v.identifier)
    ELSE IF v.slug = STABLE
    THEN v.identifier
    ELSE unslugify(v.slug, v.identifier)

\* Version.remote_slug
remote_slug(v, p, r) ==
    IF v.slug = LATEST
    THEN IF p.default_branch # EMPTY
         THEN p.default_branch
         ELSE r.fallback_branch
    ELSE v.slug

---------------------------------------------------------------------------
(* The regular expressions of the source-link builders.  Each has the      *)
(* shape  head (.+) / (.+) tail ; ANY stands for an unescaped dot.         *)

ANY ==
    "ANY"

\* 'github.com/(.+)/(.+)(?:\.git){1}'
GITHUB_RE_GIT ==
    [head |-> <<"g","i","t","h","u","b",ANY,"c","o","m","/">>,
     tail |-> <<".","g","i","t">>]

\* 'github.com/(.+)/(.+)'
GITHUB_RE_PLAIN ==
    [head |-> <<"g","i","t","h","u","b",ANY,"c","o","m","/">>,
     tail |-> <<>>]

\* 'github.com:(.+)/(.+).git'
GITHUB_RE_SSH ==
    [head |-> <<"g","i","t","h","u","b",ANY,"c","o","m",":">>,
     tail |-> <<ANY,"g","i","t">>]

\* the list with the catch-all pattern tried first
GITHUB_REGEXS_plain_first ==
    <<GITHUB_RE_PLAIN, GITHUB_RE_GIT, GITHUB_RE_SSH>>

\* GITHUB_REGEXS
GITHUB_REGEXS ==
    <<GITHUB_RE_GIT, GITHUB_RE_PLAIN, GITHUB_RE_SSH>>

\* 'bitbucket.org/(.+)/(.+).git'
BB_RE_GIT ==
    [head |-> <<"b","i","t","b","u","c","k","e","t",ANY,"o","r","g","/">>,
     tail |-> <<ANY,"g","i","t">>]

\* 'bitbucket.org/(.+)/(.+)/'
BB_RE_SLASH ==
    [head |-> <<"b","i","t","b","u","c","k","e","t",ANY,"o","r","g","/">>,
     tail |-> <<"/">>]

\* 'bitbucket.org/(.+)/(.+)'
BB_RE_PLAIN ==
    [head |-> <<"b","i","t","b","u","c","k","e","t",ANY,"o","r","g","/">>,
     tail |-> <<>>]

\* BB_REGEXS
BB_REGEXS ==
    <<BB_RE_GIT, BB_RE_SLASH, BB_RE_PLAIN>>

\* the literal-and-dot pattern pat matches s at position i
re_matches_at(pat, s, i) ==
    /\ i + Len(pat) - 1 <= Len(s)
    /\ \A k \in 1..Len(pat) : pat[k] = ANY \/ pat[k] = s[i + k - 1]

\* the ways  (.+) / (.+) tail  matches when the head matched at i: <<p, q>>
\* with the '/' at p and the tail at q, both groups non-empty
re_splits(re, s, i) ==
    LET a  == i + Len(re.head)
        ps == {p \in a + 1..Len(s) : s[p] = "/"}
        qs == {q \in a + 3..Len(s) + 1 : re_matches_at(re.tail, s, q)}
    IN  {pq \in ps \X qs : pq[2] > pq[1] + 1}

\* the positions at which the whole pattern matches
re_starts(re, s) ==
    {i \in 1..Len(s) :
        re_matches_at(re.head, s, i) /\ re_splits(re, s, i) # {}}

Max(S) ==
    CHOOSE x \in S : \A y \in S : y <= x

Min(S) ==
    CHOOSE x \in S : \A y \in S : x <= y

\* regex.search(s): the leftmost match, both groups greedy (the first group
\* as long as a match allows, then the second); groups() is <<user, repo>>
re_search(re, s) ==
    LET starts == re_starts(re, s)
    IN  IF starts = {}
        THEN [matched |-> FALSE, groups |-> <<EMPTY, EMPTY>>]
        ELSE LET i  == Min(starts)
                 a  == i + Len(re.head)
                 sp == re_splits(re, s, i)
                 p  == Max({pq[1] : pq \in sp})
                 q  == Max({pq[2] : pq \in {x \in sp : x[1] = p}})
             IN  [matched |-> TRUE,
                  groups  |-> <<SubSeq(s, a, p - 1), SubSeq(s, p + 1, q - 1)>>]

RECURSIVE first_match_from(_, _, _)
\* for regex in REGEXS: match = regex.search(repo_url); if match: break
first_match_from(regexs, s, k) ==
    IF k > Len(regexs)
    THEN [matched |-> FALSE, groups |-> <<EMPTY, EMPTY>>]
    ELSE LET m == re_search(regexs[k], s)
         IN  IF m.matched THEN m ELSE first_match_from(regexs, s, k + 1)

first_match(regexs, s) ==
    first_match_from(regexs, s, 1)

---------------------------------------------------------------------------
(* Version.get_github_url and Version.get_bitbucket_url.                   *)

\* "https://github.com/"
GITHUB_URL_PREFIX ==
    <<"h","t","t","p","s",":","/","/","g","i","t","h","u","b",".","c","o","m","/">>

\* 'https://github.com/{user}/{repo}/{action}/{version}{docroot}{path}{source_suffix}'
GITHUB_URL(user, repo, action, ver, docroot, path, source_suffix) ==
    GITHUB_URL_PREFIX \o user \o <<"/">> \o repo \o <<"/">> \o action
        \o <<"/">> \o ver \o docroot \o path \o source_suffix

\* "https://bitbucket.org/"
BB_URL_PREFIX ==
    <<"h","t","t","p","s",":","/","/","b","i","t","b","u","c","k","e","t",".","o","r","g","/">>

\* 'https://bitbucket.org/{user}/{repo}/src/{version}{docroot}{path}{source_suffix}'
BB_URL(user, repo, ver, docroot, path, source_suffix) ==
    BB_URL_PREFIX \o user \o <<"/">> \o repo \o <<"/","s","r","c","/">>
        \o ver \o docroot \o path \o source_suffix

\* the docroot get_github_url substitutes, for a non-empty docroot
github_docroot(docroot) ==
    LET d == IF docroot[1] # "/" THEN <<"/">> \o docroot ELSE docroot
    IN  IF d[Len(d)] # "/" THEN d \o <<"/">> ELSE d

\* the docroot get_bitbucket_url substitutes: the argument as it came
bitbucket_docroot(docroot) ==
    docroot

\* the action branch: action_string stays unbound for any other action
action_string(action) ==
    IF action = s_view THEN s_blob
    ELSE IF action = s_edit THEN s_edit
    ELSE <<"UNBOUND">>

action_known(action) ==
    action = s_view \/ action = s_edit

\* get_github_url looking the action up before anything else
get_github_url_action_first(v, p, r, docroot, filename, source_suffix, action) ==
    IF ~action_known(action)
    THEN Raises("KeyError")
    ELSE IF ~str_in(s_github, p.repo) \/ docroot = EMPTY
    THEN Returns(EMPTY)
    ELSE LET m == first_match(GITHUB_REGEXS, p.repo)
         IN  IF ~m.matched
             THEN Returns(EMPTY)
             ELSE Returns(GITHUB_URL(m.groups[1], str_rstrip(m.groups[2], "/"),
                                     action_string(action), remote_slug(v, p, r),
                                     github_docroot(docroot), filename,
                                     source_suffix))

\* Version.get_github_url
get_github_url(v, p, r, docroot, filename, source_suffix, action) ==
    IF ~str_in(s_github, p.repo)
    THEN Returns(EMPTY)
    ELSE IF docroot = EMPTY
    THEN Returns(EMPTY)
    ELSE LET m == first_match(GITHUB_REGEXS, p.repo)
         IN  IF ~m.matched
             THEN Returns(EMPTY)
             ELSE IF ~action_known(action)
             THEN Raises("UnboundLocalError")
             ELSE Returns(GITHUB_URL(m.groups[1], str_rstrip(m.groups[2], "/"),
                                     action_string(action), remote_slug(v, p, r),
                                     github_docroot(docroot), filename,
                                     source_suffix))

\* Version.get_bitbucket_url
get_bitbucket_url(v, p, r, docroot, filename, source_suffix) ==
    IF ~str_in(s_bitbucket, p.repo)
    THEN Returns(EMPTY)
    ELSE IF docroot = EMPTY
    THEN Returns(EMPTY)
    ELSE LET m == first_match(BB_REGEXS, p.repo)
         IN  IF ~m.matched
             THEN Returns(EMPTY)
             ELSE Returns(BB_URL(m.groups[1], str_rstrip(m.groups[2], "/"),
                                 remote_slug(v, p, r),
                                 bitbucket_docroot(docroot), filename,
                                 source_suffix))

---------------------------------------------------------------------------
(* Inputs of the version model.                                            *)

\* (slug, identifier) of the versions a project carries
Versions ==
    { [slug |-> LATEST, identifier |-> s_master],
      [slug |-> LATEST, identifier |-> s_rel_sl_1],
      [slug |-> STABLE, identifier |-> s_sha],
      [slug |-> STABLE, identifier |-> s_rel_sl_1],
      [slug |-> s_main, identifier |-> s_main],
      [slug |-> s_feature_x, identifier |-> s_feature_sl_x],
      [slug |-> s_feature_x, identifier |-> s_feature_x],
      [slug |-> s_feature_cool_thing, identifier |-> s_feature_sl_cool_thing] }

\* project.default_branch: unset, or a branch name
DefaultBranches ==
    {EMPTY, s_main, s_feature_x}

\* fallback_branch of the project's VCS backend
FallbackBranches ==
    {s_master, s_rel_1}

\* project.repo
Repos ==
    {r_github_https_git, r_github_https, r_github_ssh, r_github_pages,
     r_bitbucket_https, r_bitbucket_git, r_bitbucket_slash, r_gitlab}

Docroots ==
    {EMPTY, s_source, s_sl_source, s_source_sl, s_sl_source_sl}

Filenames ==
    {s_index, EMPTY}

Suffixes ==
    {s_rst}

Actions ==
    {s_view, s_edit, s_blame}

---------------------------------------------------------------------------
(* Operations on a version and its project.                                *)

\* the version's slug and identifier are (re)written
VersionSet(v) ==
    /\ v # version
    /\ version' = v
    /\ ret' = NoCall
    /\ UNCHANGED <<builds, project, vcs_repo, commands>>

\* project.default_branch = b
ProjectSetDefaultBranch(b) ==
    /\ b # project.default_branch
    /\ project' = [project EXCEPT !.default_branch = b]
    /\ ret' = NoCall
    /\ UNCHANGED <<builds, version, vcs_repo, commands>>

\* project.repo = u
ProjectSetRepo(u) ==
    /\ u # project.repo
    /\ project' = [project EXCEPT !.repo = u]
    /\ ret' = NoCall
    /\ UNCHANGED <<builds, version, vcs_repo, commands>>

\* the project's backend, hence project.vcs_repo().fallback_branch, changes
ProjectSetBackend(f) ==
    /\ f # vcs_repo.fallback_branch
    /\ vcs_repo' = [vcs_repo EXCEPT !.fallback_branch = f]
    /\ ret' = NoCall
    /\ UNCHANGED <<builds, version, project, commands>>

\* version.get_vcs_slug()
CallGetVcsSlug ==
    /\ ret' = [op |-> "get_vcs_slug",
               res |-> Returns(get_vcs_slug(version, project, vcs_repo))]
    /\ UNCHANGED <<builds, version, project, vcs_repo, commands>>

\* version.get_github_url(docroot, filename, source_suffix, action)
CallGetGithubUrl(docroot, filename, source_suffix, action) ==
    /\ ret' = [op |-> "get_github_url",
               docroot |-> docroot, filename |-> filename,
               source_suffix |-> source_suffix, action |-> action,
               segment |-> IF docroot = EMPTY THEN EMPTY
                           ELSE github_docroot(docroot),
               res |-> get_github_url(version, project, vcs_repo, docroot,
                                      filename, source_suffix, action)]
    /\ UNCHANGED <<builds, version, project, vcs_repo, commands>>

\* version.get_bitbucket_url(docroot, filename, source_suffix)
CallGetBitbucketUrl(docroot, filename, source_suffix) ==
    /\ ret' = [op |-> "get_bitbucket_url",
               docroot |-> docroot, filename |-> filename,
               source_suffix |-> source_suffix, action |-> EMPTY,
               segment |-> bitbucket_docroot(docroot),
               res |-> get_bitbucket_url(version, project, vcs_repo, docroot,
                                         filename, source_suffix)]
    /\ UNCHANGED <<builds, version, project, vcs_repo, commands>>

---------------------------------------------------------------------------
(* BuildCommandResult.run_time.  A datetime is <<seconds, microseconds>>   *)
(* since some epoch; None is the empty tuple.                              *)

NONE ==
    <<>>

SecondsPerDay ==
    86400

MicrosPerSecond ==
    1000000

\* end - start as datetime.timedelta normalises it: microseconds and seconds
\* are never negative, days carries the sign
timedelta(end, start) ==
    LET borrow == IF end[2] < start[2] THEN 1 ELSE 0
        secs   == end[1] - start[1] - borrow
    IN  [days         |-> secs \div SecondsPerDay,
         seconds      |-> secs % SecondsPerDay,
         microseconds |-> end[2] - start[2] + borrow * MicrosPerSecond]

\* a property that returns None
ReturnsNone ==
    [exc |-> "none", none |-> TRUE, val |-> 0]

\* a property that returns the number n
ReturnsNumber(n) ==
    [exc |-> "none", none |-> FALSE, val |-> n]

\* BuildCommandResult.run_time
run_time(c) ==
    IF c.start_time # NONE /\ c.end_time # NONE
    THEN ReturnsNumber(timedelta(c.end_time, c.start_time).seconds)
    ELSE ReturnsNone

\* the timestamps a command is given
Times ==
    {NONE, <<0, 0>>, <<5, 0>>, <<5, 500000>>, <<86405, 0>>}

ExitCodes ==
    {0, 1}

\* BuildCommandResult(start_time=st, end_time=et, exit_code=ec)
CommandNew(st, et, ec) ==
    /\ Len(commands) < MaxCommands
    /\ commands' = Append(commands,
                          [start_time |-> st, end_time |-> et, exit_code |-> ec])
    /\ ret' = NoCall
    /\ UNCHANGED <<builds, version, project, vcs_repo>>

\* command.run_time
CallRunTime(i) ==
    /\ i \in 1..Len(commands)
    /\ ret' = [op |-> "run_time", i |-> i, res |-> run_time(commands[i])]
    /\ UNCHANGED <<builds, version, project, vcs_repo, commands>>

---------------------------------------------------------------------------
(* The commands of one Build: BuildCommandResultMixin and the rows stored  *)
(* through the related manager.                                            *)

\* number of BuildCommandResult rows inserted for the build
MaxInserted ==
    3

\* a test that also takes a failing exit code for a success
successful_nonnegative(c) ==
    c.exit_code >= 0

\* BuildCommandResultMixin.successful
successful(c) ==
    c.exit_code = 0

\* BuildCommandResultMixin.failed
failed(c) ==
    ~successful(c)

\* overall_success = all(c.successful for c in commands)
overall_success(cs) ==
    \A i \in 1..Len(cs) : successful(cs[i])

\* the start times of the inserted rows; both columns are NOT NULL
InsertTimes ==
    {<<0, 0>>, <<5, 0>>}

\* BuildCommandResult.objects.create(build=build, start_time=st,
\* end_time=st, exit_code=ec): the row gets the next primary key
CommandInsert(st, ec) ==
    /\ Len(commands) < MaxInserted
    /\ commands' = Append(commands,
                          [start_time |-> st, end_time |-> st, exit_code |-> ec])
    /\ ret' = NoCall
    /\ UNCHANGED <<builds, version, project, vcs_repo>>

\* command.successful
CallSuccessful(i) ==
    /\ i \in 1..Len(commands)
    /\ ret' = [op |-> "successful", i |-> i, val |-> successful(commands[i])]
    /\ UNCHANGED <<builds, version, project, vcs_repo, commands>>

\* command.failed
CallFailed(i) ==
    /\ i \in 1..Len(commands)
    /\ ret' = [op |-> "failed", i |-> i, val |-> failed(commands[i])]
    /\ UNCHANGED <<builds, version, project, vcs_repo, commands>>

\* overall_success over the build's commands
CallOverallSuccess ==
    /\ ret' = [op |-> "overall_success", i |-> 0,
               val |-> overall_success(commands)]
    /\ UNCHANGED <<builds, version, project, vcs_repo, commands>>

\* a < b for two datetimes
datetime_lt(a, b) ==
    a[1] < b[1] \/ (a[1] = b[1] /\ a[2] < b[2])

\* Meta.ordering = ['start_time']: the orders, as sequences of primary keys,
\* in which ORDER BY start_time can yield the rows; nothing orders two rows
\* with the same start_time, so the database may yield them either way
ordered_by_start_time(cs) ==
    {o \in [1..Len(cs) -> 1..Len(cs)] :
        /\ \A i, j \in 1..Len(cs) : o[i] = o[j] => i = j
        /\ \A i, j \in 1..Len(cs) :
               i < j => ~datetime_lt(cs[o[j]].start_time, cs[o[i]].start_time)}

\* for command in build.commands.all()
CallIterateCommands(order) ==
    /\ order \in ordered_by_start_time(commands)
    /\ ret' = [op |-> "commands.all", i |-> 0, val |-> order]
    /\ UNCHANGED <<builds, version, project, vcs_repo, commands>>

---------------------------------------------------------------------------
(* Version.save.  The calls save() makes on its collaborators are kept, in *)
(* order, in the result record.                                            *)

\* the users that can own the project
Users ==
    {"eric", "super", "tester"}

\* super(Version, self).save(*args, **kwargs)
call_super_save ==
    [call |-> "Model.save", perm |-> "", user |-> ""]

\* assign('view_version', owner, self)
call_assign(owner) ==
    [call |-> "assign", perm |-> "view_version", user |-> owner]

\* self.project.sync_supported_versions()
call_sync ==
    [call |-> "sync_supported_versions", perm |-> "", user |-> ""]

\* the orders in which project.users.all() can yield the owners
owner_orders(users) ==
    {o \in [1..Cardinality(users) -> users] :
        \A i, j \in 1..Cardinality(users) : o[i] = o[j] => i = j}

\* a save with the resynchronisation inside the loop over the owners
Version_save_sync_in_loop(owners) ==
    LET n == Len(owners)
    IN  <<call_super_save>> \o
        [k \in 1..2 * n |-> IF k % 2 = 1 THEN call_assign(owners[(k + 1) \div 2])
                            ELSE call_sync]

\* Version.save, for the owners in the order the queryset yields them
Version_save(owners) ==
    <<call_super_save>> \o [k \in 1..Len(owners) |-> call_assign(owners[k])]
        \o <<call_sync>>

\* project.users.add(u)
ProjectAddUser(u) ==
    /\ u \notin project.users
    /\ project' = [project EXCEPT !.users = @ \cup {u}]
    /\ ret' = NoCall
    /\ UNCHANGED <<builds, version, vcs_repo, commands>>

\* project.users.remove(u)
ProjectRemoveUser(u) ==
    /\ u \in project.users
    /\ project' = [project EXCEPT !.users = @ \ {u}]
    /\ ret' = NoCall
    /\ UNCHANGED <<builds, version, vcs_repo, commands>>

\* version.slug, version.identifier = v.slug, v.identifier; version.save()
VersionSave(v, owners) ==
    /\ owners \in owner_orders(project.users)
    /\ version' = v
    /\ ret' = [op |-> "Version.save", exc |-> "none", v |-> v,
               calls |-> Version_save(owners)]
    /\ UNCHANGED <<builds, project, vcs_repo, commands>>

\* version.save() when the storage layer refuses the row: the exception of
\* super().save() leaves save() before any owner is looked at
VersionSaveRefused(v) ==
    /\ ret' = [op |-> "Version.save", exc |-> "IntegrityError", v |-> v,
               calls |-> <<call_super_save>>]
    /\ UNCHANGED <<builds, version, project, vcs_repo, commands>>

---------------------------------------------------------------------------
Init ==
    /\ builds = <<>>
    /\ version = [slug |-> LATEST, identifier |-> s_master]
    /\ project = [default_branch |-> EMPTY, repo |-> r_github_https_git,
                  users |-> {}]
    /\ vcs_repo = [fallback_branch |-> s_master]
    /\ commands = <<>>
    /\ ret = NoCall

NextBuild ==
    \/ BuildCreateDefault
    \/ \E s \in BuildStates : BuildCreate(s)
    \/ \E pk \in 1..MaxBuilds, s \in BuildStates : BuildUpdateState(pk, s)
    \/ \E pk \in 1..MaxBuilds : BuildReadFinished(pk)

SpecBuild ==
    Init /\ [][NextBuild]_vars

NextVersion ==
    \/ \E v \in Versions : VersionSet(v)
    \/ \E b \in DefaultBranches : ProjectSetDefaultBranch(b)
    \/ \E u \in Repos : ProjectSetRepo(u)
    \/ \E f \in FallbackBranches : ProjectSetBackend(f)
    \/ CallGetVcsSlug
    \/ \E d \in Docroots, f \in Filenames, x \in Suffixes, a \in Actions :
           CallGetGithubUrl(d, f, x, a)
    \/ \E d \in Docroots, f \in Filenames, x \in Suffixes :
           CallGetBitbucketUrl(d, f, x)

SpecVersion ==
    Init /\ [][NextVersion]_vars

NextCommand ==
    \/ \E st \in Times, et \in Times, ec \in ExitCodes : CommandNew(st, et, ec)
    \/ \E i \in 1..MaxCommands : CallRunTime(i)

SpecCommand ==
    Init /\ [][NextCommand]_vars

NextBuildCommands ==
    \/ \E st \in InsertTimes, ec \in ExitCodes : CommandInsert(st, ec)
    \/ \E i \in 1..MaxInserted : CallSuccessful(i)
    \/ \E i \in 1..MaxInserted : CallFailed(i)
    \/ CallOverallSuccess
    \/ \E order \in ordered_by_start_time(commands) : CallIterateCommands(order)

SpecBuildCommands ==
    Init /\ [][NextBuildCommands]_vars

NextVersionSave ==
    \/ \E u \in Users : ProjectAddUser(u)
    \/ \E u \in Users : ProjectRemoveUser(u)
    \/ \E v \in Versions :
           \E owners \in owner_orders(project.users) : VersionSave(v, owners)
    \/ \E v \in Versions : VersionSaveRefused(v)

SpecVersionSave ==
    Init /\ [][NextVersionSave]_vars

---------------------------------------------------------------------------
(* Build.state                                                             *)

\* the update moves to a later state of the lifecycle or jumps to finished
ForwardOrFinished(old, new) ==
    new = BUILD_STATE_FINISHED \/ StateIndex(new) > StateIndex(old)

\* the update moves to an earlier state that is not finished
BackwardNonFinished(old, new) ==
    new # BUILD_STATE_FINISHED /\ StateIndex(new) < StateIndex(old)

C2_StartsTriggered ==
    (ret.op = "Build.create" /\ ~ret.explicit) =>
        /\ builds[ret.pk].state = "triggered"
        /\ ~Build_finished(builds[ret.pk])

\* C2 amended: a Build created without an explicit state starts in the
\* field's default, finished, so its finished property is true.
C2_StartsFinished ==
    (ret.op = "Build.create" /\ ~ret.explicit) =>
        /\ builds[ret.pk].state = "finished"
        /\ Build_finished(builds[ret.pk])

\* a Build has just been created without an explicit state
C2_Witness ==
    /\ ret.op = "Build.create"
    /\ ~ret.explicit
    /\ builds[ret.pk].state = Build_state_default

---------------------------------------------------------------------------
(* Version.get_vcs_slug                                                    *)

\* the version is a branch whose name holds '/', stored under the slug that
\* writes each '/' as '-', and get_vcs_slug has just been called on it
C3_Case ==
    /\ ret.op = "get_vcs_slug"
    /\ version.slug # LATEST
    /\ version.slug # STABLE
    /\ str_in(<<"/">>, version.identifier)
    /\ version.slug = str_replace(version.identifier, "/", "-")

\* C3 as stated: for such a version get_vcs_slug returns the original branch
\* name, also when the name holds literal dashes.
C3_ReturnsBranchName ==
    C3_Case => ret.res = Returns(version.identifier)

\* C3 amended: get_vcs_slug returns the original branch name when the name
\* holds no literal dash, and the slug unchanged when it holds one.
C3_ReturnsBranchNameUnlessDashed ==
    C3_Case =>
        IF str_in(<<"-">>, version.identifier)
        THEN ret.res = Returns(version.slug)
        ELSE ret.res = Returns(version.identifier)

\* "feature-x" with identifier "feature/x" resolved to "feature/x"
C3_Witness ==
    /\ C3_Case
    /\ version.identifier = s_feature_sl_x
    /\ ret.res.val = s_feature_sl_x

\* C4: for a version with slug "stable" get_vcs_slug returns exactly the
\* identifier, whatever default_branch and the fallback branch are.
C4_StableReturnsIdentifier ==
    (ret.op = "get_vcs_slug" /\ version.slug = STABLE) =>
        ret.res = Returns(version.identifier)

\* "stable" resolved after default_branch was set, with another fallback
C4_Witness ==
    /\ ret.op = "get_vcs_slug"
    /\ version.slug = STABLE
    /\ project.default_branch = s_feature_x
    /\ vcs_repo.fallback_branch = s_rel_1
    /\ ret.res.val = s_rel_sl_1

\* get_vcs_slug has just been called on "latest" with no default_branch
C5_Case ==
    /\ ret.op = "get_vcs_slug"
    /\ version.slug = LATEST
    /\ project.default_branch = EMPTY

\* C5 as stated: "latest" with no default_branch resolves to the fallback
\* branch for every fallback branch and every identifier.
C5_LatestReturnsFallback ==
    C5_Case => ret.res = Returns(vcs_repo.fallback_branch)

\* C5 amended: "latest" with no default_branch resolves to the fallback
\* branch, or to the fallback branch with each '-' written as '/' when that
\* form occurs in the identifier; a fallback without '-' is returned as is.
C5_LatestReturnsFallbackOrUnslugged ==
    C5_Case =>
        /\ ret.res.exc = "none"
        /\ \/ ret.res.val = vcs_repo.fallback_branch
           \/ /\ ret.res.val = str_replace(vcs_repo.fallback_branch, "-", "/")
              /\ str_in(ret.res.val, version.identifier)
        /\ ~str_in(<<"-">>, vcs_repo.fallback_branch) =>
               ret.res.val = vcs_repo.fallback_branch
        /\ str_in(str_replace(vcs_repo.fallback_branch, "-", "/"),
                  version.identifier) =>
               ret.res.val = str_replace(vcs_repo.fallback_branch, "-", "/")

\* "latest" resolved to the fallback branch "master"
C5_Witness ==
    /\ C5_Case
    /\ vcs_repo.fallback_branch = s_master
    /\ ret.res.val = s_master

---------------------------------------------------------------------------
(* Version.get_github_url and Version.get_bitbucket_url                    *)

\* a source-link builder has just been called on a repo URL that does not
\* hold the builder's hostname token
C6_Case ==
    \/ ret.op = "get_github_url" /\ ~str_in(s_github, project.repo)
    \/ ret.op = "get_bitbucket_url" /\ ~str_in(s_bitbucket, project.repo)

\* C6: without the hostname token in the repo URL both builders return the
\* empty string, for every docroot, filename, suffix and action, and raise
\* nothing.
C6_NoTokenReturnsEmpty ==
    C6_Case => ret.res = Returns(EMPTY)

\* get_github_url on a gitlab repo with an unknown action and a docroot
C6_Witness ==
    /\ ret.op = "get_github_url"
    /\ project.repo = r_gitlab
    /\ ret.action = s_blame
    /\ ret.docroot = s_source
    /\ ret.res = Returns(EMPTY)

\* s ends with t
str_endswith(s, t) ==
    /\ Len(t) <= Len(s)
    /\ SubSeq(s, Len(s) - Len(t) + 1, Len(s)) = t

\* C7: whenever a builder returns a URL for a non-empty docroot, the docroot
\* segment it put between the version and the filename begins and ends
\* with '/'.
C7_DocrootSegmentSlashed ==
    (/\ ret.op \in {"get_github_url", "get_bitbucket_url"}
     /\ ret.docroot # EMPTY
     /\ ret.res.exc = "none"
     /\ ret.res.val # EMPTY) =>
        /\ ret.segment[1] = "/"
        /\ ret.segment[Len(ret.segment)] = "/"
        /\ str_endswith(ret.res.val,
                        remote_slug(version, project, vcs_repo) \o ret.segment
                            \o ret.filename \o ret.source_suffix)

\* get_github_url has just been called with the arguments of the example
C8_Case ==
    /\ ret.op = "get_github_url"
    /\ project.repo = r_github_https_git
    /\ ret.docroot = s_source
    /\ ret.filename = s_index
    /\ ret.source_suffix = s_rst
    /\ ret.action = s_view
    /\ remote_slug(version, project, vcs_repo) = s_main

\* C8: the patterns are tried in order and the first match wins, so the
\* example yields "https://github.com/acme/docs/blob/main/source/index.rst".
C8_GithubExample ==
    C8_Case => ret.res = Returns(u_github_acme_docs_main_index)

\* the example has been called and returned a URL
C8_Witness ==
    /\ C8_Case
    /\ ret.res.exc = "none"
    /\ ret.res.val # EMPTY

---------------------------------------------------------------------------
(* BuildCommandResult.run_time                                             *)

\* a <= b for two datetimes
time_le(a, b) ==
    a[1] < b[1] \/ (a[1] = b[1] /\ a[2] <= b[2])

\* whole seconds from a to b, for a <= b
whole_seconds(a, b) ==
    IF b[2] >= a[2] THEN b[1] - a[1] ELSE b[1] - a[1] - 1

\* C9: with both timestamps present and start_time <= end_time, run_time is
\* the whole number of seconds between them, also for a day or more; with a
\* timestamp missing, run_time is None.
C9_RunTimeIsElapsedSeconds ==
    ret.op = "run_time" =>
        LET c == commands[ret.i]
        IN  IF c.start_time = NONE \/ c.end_time = NONE
            THEN ret.res = ReturnsNone
            ELSE time_le(c.start_time, c.end_time) =>
                     ret.res = ReturnsNumber(whole_seconds(c.start_time,
                                                           c.end_time))

\* C10: with start_time later than end_time, run_time is None, not a number.
C10_SkewIsUndefined ==
    ret.op = "run_time" =>
        LET c == commands[ret.i]
        IN  (/\ c.start_time # NONE
             /\ c.end_time # NONE
             /\ ~time_le(c.start_time, c.end_time)) =>
                ret.res = ReturnsNone

---------------------------------------------------------------------------
(* BuildCommandResultMixin                                                 *)

\* the exit codes of the build's commands, in insertion order
exit_codes ==
    [i \in 1..Len(commands) |-> commands[i].exit_code]

\* C11: overall_success is true exactly when every command has exit code 0
\* (true for no commands); successful is exit_code = 0 and failed is its
\* negation.
C11_OverallSuccessIffAllZero ==
    /\ ret.op = "overall_success" =>
           (ret.val <=> \A i \in 1..Len(commands) : exit_codes[i] = 0)
    /\ ret.op = "successful" =>
           (ret.val <=> exit_codes[ret.i] = 0)
    /\ ret.op = "failed" =>
           (ret.val <=> exit_codes[ret.i] # 0)

\* exit codes [0, 0, 1] aggregated to false
C11_Witness ==
    /\ ret.op = "overall_success"
    /\ exit_codes = <<0, 0, 1>>
    /\ ret.val = FALSE

---------------------------------------------------------------------------
(* Version.save                                                            *)

\* the positions of the calls c in a call sequence
positions(calls, c) ==
    {i \in 1..Len(calls) : calls[i] = c}

\* C12: a save that completes has persisted the version first, then granted
\* view_version to every current owner of the project, each once, and then
\* called sync_supported_versions exactly once, after all grants.
C12_SavePersistsGrantsThenSyncs ==
    (ret.op = "Version.save" /\ ret.exc = "none") =>
        LET calls == ret.calls
            n     == Len(calls)
        IN  /\ version = ret.v
            /\ positions(calls, call_super_save) = {1}
            /\ positions(calls, call_sync) = {n}
            /\ n = Cardinality(project.users) + 2
            /\ \A u \in project.users :
                   /\ Cardinality(positions(calls, call_assign(u))) = 1
                   /\ \A i \in positions(calls, call_assign(u)) : 1 < i /\ i < n
            /\ \A i \in 2..n - 1 :
                   calls[i].call = "assign" /\ calls[i].user \in project.users

\* a save has completed for a project with two owners
C12_Witness ==
    /\ ret.op = "Version.save"
    /\ ret.exc = "none"
    /\ project.users = {"eric", "super"}
    /\ Len(ret.calls) = 4
    /\ ret.calls[4] = call_sync

---------------------------------------------------------------------------
(* BuildCommandResult.Meta.ordering                                        *)

\* C13: iterating the build's commands yields them in non-decreasing
\* start_time order, and two commands with the same start_time come in
\* insertion order.
C13_StableStartTimeOrder ==
    ret.op = "commands.all" =>
        \A i, j \in 1..Len(ret.val) :
            i < j =>
                /\ ~datetime_lt(commands[ret.val[j]].start_time,
                                commands[ret.val[i]].start_time)
                /\ commands[ret.val[i]].start_time =
                       commands[ret.val[j]].start_time =>
                       ret.val[i] < ret.val[j]

===========================================================================
